---- MODULE Spec2Model ----
(***************************************************************************)
(* Model of the booking orchestrator hook (useBookingForm / useBookings,   *)
(* src/unnamed/part_000) of the cal.com Booker.                            *)
(*                                                                         *)
(* JavaScript values are encoded as follows:                               *)
(*   - a missing number (null / undefined) and the number 0 are both       *)
(*     falsy and are both written 0 (NoDuration, NoCount, NoId);           *)
(*   - a missing string is the string "null" (NoSlot, NoUid);              *)
(*   - a string that is inspected character by character (a query key) is  *)
(*     a sequence of one-character strings.                                *)
(***************************************************************************)
EXTENDS Integers, Sequences, FiniteSets, TLC

VARIABLES
    timeslot,             \* store.selectedTimeslot ("null" = none)
    duration,             \* store.selectedDuration (0 = none)
    recurringEventCount,  \* store.recurringEventCount (0 = none)
    isInstantMeeting,     \* store.isInstantMeeting
    rescheduleUid,        \* store.rescheduleUid ("null" = none)
    formValues,           \* store-level form-value cache (set of cached fields)
    eventLoaded,          \* event.data is defined
    eventData,            \* the event descriptor event.data holds once loaded
    searchParams,         \* URL query: sequence of <<key, value>>, keys distinct
    responses,            \* bookingForm values: responses.email
    globalError,          \* bookingForm.formState.errors["globalError"] is set
    mutation,             \* observer state of the three useMutation hooks
    calls,                \* log of every creation call ever dispatched
    navs,                 \* log of every navigation issued (router.push / redirect)
    bookingId,            \* "bookingId" query parameter (0 = none)
    expiryTime,           \* useState expiryTime (0 = undefined)
    submits,              \* number of handleBookEvent invocations so far
    timezone,             \* useTimePreferences().timezone
    bookingData,          \* store.bookingData?.uid ("null" = none)
    seatedEventData,      \* store.seatedEventData?.bookingUid ("null" = none)
    now,                  \* the clock: new Date()
    hasInstantMeetingTokenExpired,  \* as evaluated by the latest render
    pollInFlight,         \* a getInstantBookingLocation fetch is in flight
    toasts,               \* error toasts shown by the latest poll response
    polled,               \* what the latest poll response carried ("none" before)
    requiresBookerEmailVerification,     \* event.data.requiresBookerEmailVerification
    verifiedEmail,        \* store.verifiedEmail ("null" = none)
    isEmailVerificationModalVisible,     \* the verification dialog is open
    verifyStep,           \* statements of VerifyCodeDialog.onSuccess already run
    selectedDate,         \* store.selectedDate ("null" = none)
    eventIsLoading,       \* event.isLoading
    bookerState,          \* store.state
    effectDue,            \* the bookerState effect has yet to run for the latest render
    shouldShowFormInDialog   \* the layout shows the form in a dialog

vars == << timeslot, duration, recurringEventCount, isInstantMeeting, rescheduleUid,
           formValues, eventLoaded, eventData, searchParams, responses, globalError,
           mutation, calls, navs, bookingId, expiryTime, submits,
           timezone, bookingData, seatedEventData,
           now, hasInstantMeetingTokenExpired, pollInFlight, toasts, polled,
           requiresBookerEmailVerification, verifiedEmail,
           isEmailVerificationModalVisible, verifyStep,
           selectedDate, eventIsLoading, bookerState, effectDue,
           shouldShowFormInDialog >>

\* Session state that is read for the request but set outside the hook.
requestVars == << timezone, bookingData, seatedEventData >>

\* The clock and the state of the instant-booking poller.
pollVars == << now, pollInFlight, toasts, polled >>

\* The state of the email verification gate.
gateVars == << requiresBookerEmailVerification, verifiedEmail,
               isEmailVerificationModalVisible, verifyStep >>

\* The state of the page around the form: what the bookerState effect reads
\* and writes.
uiVars == << selectedDate, eventIsLoading, bookerState, effectDue,
            shouldShowFormInDialog >>

\* Every state change re-renders the hook, and the render re-evaluates
\* expiryTime && new Date(expiryTime) < new Date().
Rendered == hasInstantMeetingTokenExpired' = (expiryTime' # 0 /\ expiryTime' < now')

\* A step of the orchestrator or of the user that touches neither the
\* request-only session state, nor the poller, nor the verification gate.
Elsewhere == UNCHANGED << requestVars, pollVars, gateVars, uiVars >> /\ Rendered

(***************************************************************************)
(* Bounds of the model.                                                    *)
(***************************************************************************)
MaxSubmits == 2      \* handleBookEvent invocations per behaviour
MaxDuration == 3     \* durations and event lengths are 1..MaxDuration
MaxCount == 1        \* recurrence counts are 1..MaxCount
MaxOccurrences == 2  \* occurrences in a recurring result
MaxTime == 1         \* expiry instants are 1..MaxTime
MaxParams == 3       \* parameters in the URL query

NoSlot == "null"
NoDuration == 0
NoCount == 0
NoId == 0
NoUid == "null"

Kinds == {"single", "recurring", "instant"}
Emails == {"a@x", "b@x"}
Slots == {"10:00"}
AllSlots == Slots \cup {"11:00"}
Timezones == {"UTC", "CET"}

(***************************************************************************)
(* JavaScript string helpers used by the metadata extraction.              *)
(***************************************************************************)
Min(a, b) == IF a < b THEN a ELSE b
Max(a, b) == IF a > b THEN a ELSE b

\* String.prototype.startsWith
StartsWith(s, prefix) ==
    /\ Len(s) >= Len(prefix)
    /\ SubSeq(s, 1, Len(prefix)) = prefix

\* String.prototype.substring(start, end): both indexes are clamped to
\* [0, length] and swapped when start > end; the result is s[lo, hi).
Substring(s, start, end) ==
    LET a == Max(0, Min(start, Len(s)))
        b == Max(0, Min(end, Len(s)))
    IN  SubSeq(s, Min(a, b) + 1, Max(a, b))

\* The two string literals of the extraction: "metadata" and "metadata[".
MetadataPrefix == << "m", "e", "t", "a", "d", "a", "t", "a" >>
MetadataOpen == << "m", "e", "t", "a", "d", "a", "t", "a", "[" >>

\* Object.keys(routerQuery): the keys of the URL query, in order.
RouterQueryKeys(sp) == [i \in 1..Len(sp) |-> sp[i][1]]

\* searchParams.get(key): the first value of the key, or null.
SearchParamsGet(sp, key) ==
    IF \E i \in 1..Len(sp) : sp[i][1] = key
    THEN sp[CHOOSE i \in 1..Len(sp) :
                /\ sp[i][1] = key
                /\ \A j \in 1..(i - 1) : sp[j][1] # key][2]
    ELSE "null"

\* { ...metadata, [name]: value }
Put(obj, name, value) ==
    [k \in (DOMAIN obj) \cup {name} |-> IF k = name THEN value ELSE obj[k]]

EmptyObject == [k \in {} |-> "null"]

\* The computed property name of one folded key.
MetadataName(key) == Substring(key, Len(MetadataOpen), Len(key) - 1)

RECURSIVE MetadataReduce(_, _, _)
MetadataReduce(keys, sp, metadata) ==
    IF keys = << >>
    THEN metadata
    ELSE MetadataReduce(Tail(keys), sp,
                        Put(metadata, MetadataName(Head(keys)),
                            SearchParamsGet(sp, Head(keys))))

\* .filter((key) => key.startsWith("metadata"))
MetadataFilter(key) == StartsWith(key, MetadataPrefix)

\* bookingInput.metadata
Metadata(sp) ==
    MetadataReduce(SelectSeq(RouterQueryKeys(sp), MetadataFilter), sp, EmptyObject)

(***************************************************************************)
(* Duration resolution and route selection of handleBookEvent.             *)
(***************************************************************************)
\* Mutant of ValidDuration: the allowed-duration membership test is dropped.
ValidDurationUnchecked(ev, d) ==
    IF d # NoDuration THEN d ELSE ev.length

\* validDuration: ev is event.data, d the selected duration (0 = none).
\* ev.multipleDuration is the set event.data.metadata?.multipleDuration
\* ({} when the event has none).
ValidDuration(ev, d) ==
    IF ev.isDynamic
    THEN IF d # NoDuration THEN d ELSE ev.length
    ELSE IF d # NoDuration /\ d \in ev.multipleDuration THEN d ELSE ev.length

\* Mutant of Route: the reschedule test is inverted (rescheduleUid for
\* !rescheduleUid).
RouteRescheduleInverted(instant, ev, count, reschedule) ==
    IF instant
    THEN "instant"
    ELSE IF ev.freq /\ count # NoCount /\ reschedule # NoUid
         THEN "recurring"
         ELSE "single"

\* Mutant of Route: the recurrence test comes before the instant-mode test.
RouteRecurringFirst(instant, ev, count, reschedule) ==
    IF ev.freq /\ count # NoCount /\ reschedule = NoUid
    THEN "recurring"
    ELSE IF instant THEN "instant" ELSE "single"

\* Mutant of Route: the reschedule reference is not consulted.
RouteIgnoringReschedule(instant, ev, count, reschedule) ==
    IF instant
    THEN "instant"
    ELSE IF ev.freq /\ count # NoCount THEN "recurring" ELSE "single"

\* The branch of the if / else-if / else that issues the creation call.
Route(instant, ev, count, reschedule) ==
    IF instant
    THEN "instant"
    ELSE IF ev.freq /\ count # NoCount /\ reschedule = NoUid
         THEN "recurring"
         ELSE "single"

(***************************************************************************)
(* Creation calls, their results and the three useMutation hooks.          *)
(***************************************************************************)
\* The uid of the k-th occurrence of a recurring result, when it has one.
OccurrenceUids == << "u1", "u2", "u3", "u4" >>

NoResponse ==
    [uid |-> NoUid, paymentUid |-> NoUid, occurrences |-> << >>,
     bookingId |-> NoId, expires |-> 0]

\* createBooking(request) -> {uid, paymentUid?}
SingleResponses ==
    { [NoResponse EXCEPT !.uid = u, !.paymentUid = p] :
        u \in {NoUid, "u1"}, p \in {NoUid, "p1"} }

\* createRecurringBooking(request, count) -> ordered sequence of {uid}
RecurringResponses ==
    { [NoResponse EXCEPT !.occurrences = o] :
        o \in UNION { { f \in [1..n -> {NoUid} \cup {OccurrenceUids[k] : k \in 1..n}] :
                          \A k \in 1..n : f[k] \in {NoUid, OccurrenceUids[k]} } :
                      n \in 0..MaxOccurrences } }

\* createInstantBooking(request) -> {bookingId, expires}
InstantResponses(i) ==
    { [NoResponse EXCEPT !.bookingId = i, !.expires = e] : e \in 1..MaxTime }

IdleMutation == [status |-> "idle", current |-> NoId]

\* The indexes of the creation calls that are still in flight.
Pending == { i \in DOMAIN calls : calls[i].state = "pending" }

\* Mutant of BookingInput: the reschedule reference is left out.
BookingInputWithoutReschedule(route) ==
    [values |-> responses,
     duration |-> ValidDuration(eventData, duration),
     date |-> timeslot,
     timeZone |-> timezone,
     rescheduleUid |-> NoUid,
     bookingUid |-> IF bookingData # NoUid THEN bookingData ELSE seatedEventData,
     metadata |-> Metadata(searchParams),
     count |-> IF route = "recurring" THEN recurringEventCount ELSE NoCount]

\* bookingInput, as handed to mapBookingToMutationInput /
\* mapRecurringBookingToMutationInput.
BookingInput(route) ==
    [values |-> responses,
     duration |-> ValidDuration(eventData, duration),
     date |-> timeslot,
     timeZone |-> timezone,
     rescheduleUid |-> rescheduleUid,
     bookingUid |-> IF bookingData # NoUid THEN bookingData ELSE seatedEventData,
     metadata |-> Metadata(searchParams),
     count |-> IF route = "recurring" THEN recurringEventCount ELSE NoCount]

\* Mutant of Dispatched: nothing is dispatched while a hook reports an error.
DispatchedUnlessError ==
    LET route == Route(isInstantMeeting, eventData, recurringEventCount, rescheduleUid)
    IN  IF \E k \in Kinds : mutation[k].status = "error"
        THEN << >>
        ELSE << [kind |-> route, input |-> BookingInput(route),
                 state |-> "pending", response |-> NoResponse] >>

\* The creation calls one handleBookEvent invocation dispatches once both
\* guards have passed: one .mutate() in exactly one branch.
Dispatched ==
    LET route == Route(isInstantMeeting, eventData, recurringEventCount, rescheduleUid)
    IN  << [kind |-> route, input |-> BookingInput(route),
            state |-> "pending", response |-> NoResponse] >>

\* mutation.mutate(): the observer drops the mutation it was watching and
\* watches the new one, which starts in status "loading".
Mutate(mut, newCalls, first) ==
    [k \in Kinds |->
        IF \E j \in 1..Len(newCalls) : newCalls[j].kind = k
        THEN [status |-> "loading",
              current |-> first + (CHOOSE j \in 1..Len(newCalls) : newCalls[j].kind = k)]
        ELSE mut[k]]

\* The observer of hook k reports the end of call i only while it still
\* watches that call.
Settle(mut, i, status) ==
    [k \in Kinds |->
        IF k = calls[i].kind /\ mut[k].current = i
        THEN [mut[k] EXCEPT !.status = status]
        ELSE mut[k]]

(***************************************************************************)
(* handleBookEvent                                                         *)
(***************************************************************************)
\* Mutant of SlotSelected: the slot guard is missing.
SlotAssumed == TRUE

\* Mutant of EventDataLoaded: the event-data guard is missing.
EventDataAssumed == TRUE

\* Mutant of ClearedFormValues: the store cache is not cleared.
KeptFormValues == formValues

\* setFormValues({})
ClearedFormValues == {}

\* if (timeslot)
SlotSelected == timeslot # NoSlot

\* event?.data
EventDataLoaded == eventLoaded

\* One invocation of handleBookEvent, whoever invokes it.
BookEvent ==
    /\ submits < MaxSubmits
    /\ submits' = submits + 1
    /\ IF SlotSelected
       THEN /\ formValues' = ClearedFormValues
            /\ IF ~EventDataLoaded
               THEN /\ globalError' = TRUE          \* clearErrors(); setError()
                    /\ UNCHANGED << mutation, calls >>
               ELSE /\ calls' = calls \o Dispatched
                    /\ mutation' = Mutate(mutation, Dispatched, Len(calls))
                    /\ globalError' = FALSE         \* clearErrors()
       ELSE UNCHANGED << formValues, globalError, mutation, calls >>
    /\ UNCHANGED << timeslot, duration, recurringEventCount, isInstantMeeting,
                    rescheduleUid, eventLoaded, eventData, searchParams, responses,
                    navs, bookingId, expiryTime >>
    /\ UNCHANGED << requestVars, pollVars, uiVars >>
    /\ Rendered

\* handleBookEvent invoked as the form's submit handler.
HandleBookEvent == BookEvent /\ UNCHANGED gateVars

(***************************************************************************)
(* Completion of the creation calls.                                       *)
(***************************************************************************)
\* Mutant of SingleNavs: the success redirect is issued before the payment
\* navigation.
SingleNavsRedirectFirst(i, r) ==
    (IF r.uid = NoUid
     THEN << >>
     ELSE << [type |-> "redirect", call |-> i, uid |-> r.uid,
              email |-> responses.email] >>)
    \o
    (IF r.paymentUid # NoUid
     THEN << [type |-> "payment", call |-> i, uid |-> r.paymentUid,
              email |-> responses.email] >>
     ELSE << >>)

\* createBookingMutation.onSuccess
SingleNavs(i, r) ==
    (IF r.paymentUid # NoUid
     THEN << [type |-> "payment", call |-> i, uid |-> r.paymentUid,
              email |-> responses.email] >>
     ELSE << >>)
    \o
    (IF r.uid = NoUid
     THEN << >>
     ELSE << [type |-> "redirect", call |-> i, uid |-> r.uid,
              email |-> responses.email] >>)

\* Mutant of RecurringNavs: the first occurrence that has a uid is taken as
\* the canonical booking, whatever its position.
RecurringNavsAnyOccurrence(i, r) ==
    LET withUid == { k \in 1..Len(r.occurrences) : r.occurrences[k] # NoUid }
    IN  IF withUid = {}
        THEN << >>
        ELSE << [type |-> "redirect", call |-> i,
                 uid |-> r.occurrences[CHOOSE k \in withUid : \A l \in withUid : k <= l],
                 email |-> responses.email] >>

\* createRecurringBookingMutation.onSuccess
RecurringNavs(i, r) ==
    LET uid == IF Len(r.occurrences) > 0 THEN r.occurrences[1] ELSE NoUid
    IN  IF uid = NoUid
        THEN << >>
        ELSE << [type |-> "redirect", call |-> i, uid |-> uid,
                 email |-> responses.email] >>

ResolveSingle(i, r) ==
    /\ calls[i].kind = "single"
    /\ calls' = [calls EXCEPT ![i].state = "resolved", ![i].response = r]
    /\ mutation' = Settle(mutation, i, "success")
    /\ navs' = navs \o SingleNavs(i, r)
    /\ UNCHANGED << bookingId, expiryTime >>

ResolveRecurring(i, r) ==
    /\ calls[i].kind = "recurring"
    /\ calls' = [calls EXCEPT ![i].state = "resolved", ![i].response = r]
    /\ mutation' = Settle(mutation, i, "success")
    /\ navs' = navs \o RecurringNavs(i, r)
    /\ UNCHANGED << bookingId, expiryTime >>

\* Mutant of ResolveInstant: the expiry instant is not recorded.
ResolveInstantWithoutExpiry(i, r) ==
    /\ calls[i].kind = "instant"
    /\ calls' = [calls EXCEPT ![i].state = "resolved", ![i].response = r]
    /\ mutation' = Settle(mutation, i, "success")
    /\ bookingId' = r.bookingId
    /\ UNCHANGED << navs, expiryTime >>

\* createInstantBookingMutation.onSuccess
ResolveInstant(i, r) ==
    /\ calls[i].kind = "instant"
    /\ calls' = [calls EXCEPT ![i].state = "resolved", ![i].response = r]
    /\ mutation' = Settle(mutation, i, "success")
    /\ bookingId' = r.bookingId
    /\ expiryTime' = r.expires
    /\ UNCHANGED navs

Frame ==
    UNCHANGED << timeslot, duration, recurringEventCount, isInstantMeeting,
                 rescheduleUid, formValues, eventLoaded, eventData, searchParams,
                 responses, globalError, submits >>
    /\ Elsewhere

CreateBookingResolves ==
    \E i \in Pending : \E r \in SingleResponses : ResolveSingle(i, r) /\ Frame

CreateRecurringBookingResolves ==
    \E i \in Pending : \E r \in RecurringResponses : ResolveRecurring(i, r) /\ Frame

CreateInstantBookingResolves ==
    \E i \in Pending : \E r \in InstantResponses(i) : ResolveInstant(i, r) /\ Frame

\* The creation call rejects: onError only scrolls the error surface into view.
CreationRejects ==
    \E i \in Pending :
        /\ calls' = [calls EXCEPT ![i].state = "rejected"]
        /\ mutation' = Settle(mutation, i, "error")
        /\ UNCHANGED << navs, bookingId, expiryTime >>
        /\ Frame

(***************************************************************************)
(* The aggregated error view and the loading states.                       *)
(***************************************************************************)
IsError(k) == mutation[k].status = "error"
MutationError(k) == IF IsError(k) THEN "error" ELSE "null"

Errors ==
    [hasFormErrors |-> IsError("single") \/ IsError("recurring")
                       \/ IsError("instant") \/ globalError,
     formErrors |-> globalError,
     dataErrors |-> IF MutationError("single") # "null" THEN MutationError("single")
                    ELSE IF MutationError("recurring") # "null"
                         THEN MutationError("recurring")
                         ELSE MutationError("instant")]

LoadingStates ==
    [creatingBooking |-> mutation["single"].status = "loading",
     creatingRecurringBooking |-> mutation["recurring"].status = "loading",
     creatingInstantBooking |-> mutation["instant"].status = "loading"]

(***************************************************************************)
(* What the user and the page do around the hook.                          *)
(***************************************************************************)
\* A slot is picked, or the form is cancelled (slot cleared).
SetSelectedTimeslot ==
    /\ \E s \in Slots \cup {NoSlot} : s # timeslot /\ timeslot' = s
    /\ UNCHANGED << duration, recurringEventCount, isInstantMeeting, rescheduleUid,
                    formValues, eventLoaded, eventData, searchParams, responses,
                    globalError, mutation, calls, navs, bookingId, expiryTime,
                    submits >>
    /\ Elsewhere

\* The same, on a day that offers a second slot to change to.
ChangeSelectedTimeslot ==
    /\ \E s \in AllSlots \cup {NoSlot} : s # timeslot /\ timeslot' = s
    /\ UNCHANGED << duration, recurringEventCount, isInstantMeeting, rescheduleUid,
                    formValues, eventLoaded, eventData, searchParams, responses,
                    globalError, mutation, calls, navs, bookingId, expiryTime,
                    submits >>
    /\ Elsewhere

SetSelectedDuration ==
    /\ \E d \in 0..MaxDuration : d # duration /\ duration' = d
    /\ UNCHANGED << timeslot, recurringEventCount, isInstantMeeting, rescheduleUid,
                    formValues, eventLoaded, eventData, searchParams, responses,
                    globalError, mutation, calls, navs, bookingId, expiryTime,
                    submits >>
    /\ Elsewhere

SetRecurringEventCount ==
    /\ \E c \in 0..MaxCount : c # recurringEventCount /\ recurringEventCount' = c
    /\ UNCHANGED << timeslot, duration, isInstantMeeting, rescheduleUid,
                    formValues, eventLoaded, eventData, searchParams, responses,
                    globalError, mutation, calls, navs, bookingId, expiryTime,
                    submits >>
    /\ Elsewhere

\* The form mirrors its values into the store cache: setFormValues(values).
SetFormValues ==
    /\ formValues = {}
    /\ formValues' = {"responses"}
    /\ UNCHANGED << timeslot, duration, recurringEventCount, isInstantMeeting,
                    rescheduleUid, eventLoaded, eventData, searchParams, responses,
                    globalError, mutation, calls, navs, bookingId, expiryTime,
                    submits >>
    /\ Elsewhere

\* The user edits the email field; the form mirrors its values into the
\* store cache.
EditResponses ==
    /\ \E e \in Emails : e # responses.email /\ responses' = [email |-> e]
    /\ formValues' = {"responses"}
    /\ UNCHANGED << timeslot, duration, recurringEventCount, isInstantMeeting,
                    rescheduleUid, eventLoaded, eventData, searchParams,
                    globalError, mutation, calls, navs, bookingId, expiryTime,
                    submits >>
    /\ Elsewhere

\* The user picks another timezone.
SetTimezone ==
    /\ \E z \in Timezones : z # timezone /\ timezone' = z
    /\ UNCHANGED << timeslot, duration, recurringEventCount, isInstantMeeting,
                    rescheduleUid, formValues, eventLoaded, eventData, searchParams,
                    responses, globalError, mutation, calls, navs, bookingId,
                    expiryTime, submits >>
    /\ UNCHANGED << bookingData, seatedEventData, pollVars, gateVars, uiVars >>
    /\ Rendered

(***************************************************************************)
(* The instant-booking poller: _instantBooking.                            *)
(***************************************************************************)
\* A bookingId the URL carries when the page is opened.
UrlBookingId == 9

\* What getInstantBookingLocation answers: metadata with a videoCallUrl,
\* metadata without one, metadata the schema rejects.
PollPayloads == {"url", "nourl", "malformed"}

\* router.push(locationVideoCallUrl) has left the booking page.
Navigated == \E n \in DOMAIN navs : navs[n].type = "location"

\* enabled: !!bookingId && !hasInstantMeetingTokenExpired
PollEnabled == bookingId # NoId /\ ~hasInstantMeetingTokenExpired

\* Time passes. The hook holds no timer: the expiry flag keeps the value of
\* the latest render unless something else renders the page meanwhile.
Tick ==
    /\ now <= MaxTime
    /\ now' = now + 1
    /\ UNCHANGED << timeslot, duration, recurringEventCount, isInstantMeeting,
                    rescheduleUid, formValues, eventLoaded, eventData, searchParams,
                    responses, globalError, mutation, calls, navs, bookingId,
                    expiryTime, submits, pollInFlight, toasts, polled >>
    /\ UNCHANGED << requestVars, gateVars, uiVars >>
    /\ \/ UNCHANGED hasInstantMeetingTokenExpired
       \/ Rendered

\* refetchInterval: the enabled query sends its next fetch.
PollTick ==
    /\ PollEnabled
    /\ ~Navigated
    /\ ~pollInFlight
    /\ pollInFlight' = TRUE
    /\ UNCHANGED << timeslot, duration, recurringEventCount, isInstantMeeting,
                    rescheduleUid, formValues, eventLoaded, eventData, searchParams,
                    responses, globalError, mutation, calls, navs, bookingId,
                    expiryTime, submits, now, hasInstantMeetingTokenExpired,
                    toasts, polled >>
    /\ UNCHANGED << requestVars, gateVars, uiVars >>

\* The toasts one run of the poll's onSuccess shows: the one of its first
\* statement, and one more unless a videoCallUrl was parsed.
PollToasts(payload) == 1 + (IF payload = "url" THEN 0 ELSE 1)

\* Mutant of PollNavs: every response navigates.
PollNavsAlways(payload) ==
    << [type |-> "location", call |-> NoId, uid |-> "v1"] >>

\* The navigation one run of the poll's onSuccess issues.
PollNavs(payload) ==
    IF payload = "url"
    THEN << [type |-> "location", call |-> NoId, uid |-> "v1"] >>
    ELSE << >>

\* The fetch in flight is answered: _instantBooking.onSuccess runs, and the
\* new query result renders the hook.
PollResponds ==
    /\ pollInFlight
    /\ pollInFlight' = FALSE
    /\ \E payload \in PollPayloads :
          /\ toasts' = PollToasts(payload)
          /\ polled' = payload
          /\ navs' = navs \o PollNavs(payload)
    /\ UNCHANGED << timeslot, duration, recurringEventCount, isInstantMeeting,
                    rescheduleUid, formValues, eventLoaded, eventData, searchParams,
                    responses, globalError, mutation, calls, bookingId,
                    expiryTime, submits, now >>
    /\ UNCHANGED << requestVars, gateVars, uiVars >>
    /\ Rendered

\* The event query delivers event.data.
EventLoads ==
    /\ ~eventLoaded
    /\ eventLoaded' = TRUE
    /\ UNCHANGED << timeslot, duration, recurringEventCount, isInstantMeeting,
                    rescheduleUid, formValues, eventData, searchParams, responses,
                    globalError, mutation, calls, navs, bookingId, expiryTime,
                    submits >>
    /\ Elsewhere

(***************************************************************************)
(* The email verification gate in front of handleBookEvent.                *)
(***************************************************************************)
\* The email in the form is the one verified in this session.
EmailVerified == verifiedEmail = responses.email

\* No verification is required, or the email is verified.
RenderConfirmNotVerifyEmailButtonCond ==
    ~requiresBookerEmailVerification \/ EmailVerified

\* beforeVerifyEmail: clearErrors(), and setError when the event data is
\* missing.
BeforeVerifyEmail == globalError' = ~EventDataLoaded

\* handleVerifyEmail: onVerifyEmail runs and the challenge is opened.
HandleVerifyEmail ==
    /\ BeforeVerifyEmail
    /\ isEmailVerificationModalVisible' = TRUE
    /\ UNCHANGED << timeslot, duration, recurringEventCount, isInstantMeeting,
                    rescheduleUid, formValues, eventLoaded, eventData, searchParams,
                    responses, mutation, calls, navs, bookingId, expiryTime,
                    submits >>
    /\ UNCHANGED << requestVars, pollVars, requiresBookerEmailVerification,
                    verifiedEmail, verifyStep, uiVars >>
    /\ Rendered

\* Mutant of OnSubmit: the form always submits to handleBookEvent.
OnSubmitUnguarded == HandleBookEvent

\* onSubmit={renderConfirmNotVerifyEmailButtonCond ? handleBookEvent : handleVerifyEmail}
OnSubmit ==
    IF RenderConfirmNotVerifyEmailButtonCond THEN HandleBookEvent ELSE HandleVerifyEmail

\* VerifyCodeDialog.onSuccess: the challenge reports success.
VerifyCodeSuccess ==
    /\ isEmailVerificationModalVisible
    /\ verifiedEmail' = responses.email
    /\ isEmailVerificationModalVisible' = FALSE
    /\ UNCHANGED << requiresBookerEmailVerification, verifyStep >>
    /\ BookEvent

\* The frame of one statement of VerifyCodeDialog.onSuccess.
OnSuccessFrame ==
    /\ UNCHANGED << timeslot, duration, recurringEventCount, isInstantMeeting,
                    rescheduleUid, formValues, eventLoaded, eventData, searchParams,
                    responses, globalError, mutation, calls, navs, bookingId,
                    expiryTime, submits >>
    /\ UNCHANGED << requestVars, pollVars, requiresBookerEmailVerification,
                    uiVars >>
    /\ Rendered

\* Mutant of OnSuccessSetVerifiedEmail: the email is not marked as verified.
OnSuccessSkipsVerifiedEmail ==
    /\ isEmailVerificationModalVisible
    /\ verifyStep = 0
    /\ submits < MaxSubmits
    /\ verifyStep' = 1
    /\ UNCHANGED << verifiedEmail, isEmailVerificationModalVisible >>
    /\ OnSuccessFrame

\* VerifyCodeDialog.onSuccess, one statement at a time.
\* setVerifiedEmail(formEmail)
OnSuccessSetVerifiedEmail ==
    /\ isEmailVerificationModalVisible
    /\ verifyStep = 0
    /\ submits < MaxSubmits
    /\ verifiedEmail' = responses.email
    /\ verifyStep' = 1
    /\ UNCHANGED isEmailVerificationModalVisible
    /\ OnSuccessFrame

\* setEmailVerificationModalVisible(false)
OnSuccessClosesModal ==
    /\ verifyStep = 1
    /\ isEmailVerificationModalVisible' = FALSE
    /\ verifyStep' = 2
    /\ UNCHANGED verifiedEmail
    /\ OnSuccessFrame

\* handleBookEvent()
OnSuccessHandleBookEvent ==
    /\ verifyStep = 2
    /\ verifyStep' = 0
    /\ UNCHANGED << requiresBookerEmailVerification, verifiedEmail,
                    isEmailVerificationModalVisible >>
    /\ BookEvent

\* The callback runs to completion: nothing else happens between its
\* statements.
NoCallbackRunning == verifyStep = 0

\* VerifyCodeDialog.setIsOpenDialog(false): the challenge is dismissed.
CloseVerifyDialog ==
    /\ isEmailVerificationModalVisible
    /\ isEmailVerificationModalVisible' = FALSE
    /\ UNCHANGED << timeslot, duration, recurringEventCount, isInstantMeeting,
                    rescheduleUid, formValues, eventLoaded, eventData, searchParams,
                    responses, globalError, mutation, calls, navs, bookingId,
                    expiryTime, submits >>
    /\ UNCHANGED << requestVars, pollVars, requiresBookerEmailVerification,
                    verifiedEmail, verifyStep, uiVars >>
    /\ Rendered

(***************************************************************************)
(* The booker page: its state effect and the surfaces that show the form.  *)
(***************************************************************************)
Dates == {"d1"}

\* Mutant of BookerStateOf: a selected date is enough to show the form.
BookerStateWithoutSlot(loading, date, slot) ==
    IF loading THEN "loading"
    ELSE IF date = NoSlot THEN "selecting_date"
    ELSE "booking"

\* The body of the effect: the state it sets.
BookerStateOf(loading, date, slot) ==
    IF loading THEN "loading"
    ELSE IF date = NoSlot THEN "selecting_date"
    ELSE IF slot = NoSlot THEN "selecting_time"
    ELSE "booking"

\* visible={bookerState === "booking" && !shouldShowFormInDialog}
FormSectionVisible == bookerState = "booking" /\ ~shouldShowFormInDialog

\* visible={bookerState === "booking" && shouldShowFormInDialog}
FormModalVisible == bookerState = "booking" /\ shouldShowFormInDialog

\* EventBooker is on screen.
FormVisible == FormSectionVisible \/ FormModalVisible

\* What a step of the page leaves alone, besides the slot, the event query,
\* the seat reference and the page state it sets itself.
PageFrame ==
    /\ UNCHANGED << duration, recurringEventCount, isInstantMeeting, rescheduleUid,
                    formValues, eventData, searchParams, responses, globalError,
                    mutation, calls, navs, bookingId, expiryTime, submits >>
    /\ UNCHANGED << timezone, bookingData, pollVars, gateVars,
                    shouldShowFormInDialog >>
    /\ Rendered

\* The effect runs: it depends on the event query, the date and the slot.
BookerStateEffect ==
    /\ effectDue
    /\ effectDue' = FALSE
    /\ bookerState' = BookerStateOf(eventIsLoading, selectedDate, timeslot)
    /\ UNCHANGED << timeslot, eventLoaded, seatedEventData, selectedDate,
                    eventIsLoading >>
    /\ PageFrame

\* The event query settles, with event data or without.
EventSettles ==
    /\ eventIsLoading
    /\ eventIsLoading' = FALSE
    /\ eventLoaded' \in BOOLEAN
    /\ effectDue' = TRUE
    /\ UNCHANGED << timeslot, seatedEventData, selectedDate, bookerState >>
    /\ PageFrame

\* A date is picked in the date picker, or unpicked.
SelectDate ==
    /\ \E d \in Dates \cup {NoSlot} : d # selectedDate /\ selectedDate' = d
    /\ effectDue' = TRUE
    /\ UNCHANGED << timeslot, eventLoaded, seatedEventData, eventIsLoading,
                    bookerState >>
    /\ PageFrame

\* A slot of the selected date is picked.
SelectTimeslot ==
    /\ selectedDate # NoSlot
    /\ \E t \in Slots : t # timeslot /\ timeslot' = t
    /\ effectDue' = TRUE
    /\ UNCHANGED << eventLoaded, seatedEventData, selectedDate, eventIsLoading,
                    bookerState >>
    /\ PageFrame

\* BookEventForm.onCancel: the slot is cleared, and the seat reference too.
OnCancel ==
    /\ FormVisible
    /\ timeslot' = NoSlot
    /\ seatedEventData' = NoUid
    /\ effectDue' = (effectDue \/ timeslot # NoSlot)
    /\ UNCHANGED << eventLoaded, selectedDate, eventIsLoading, bookerState >>
    /\ PageFrame

\* BookFormAsModal.onCancel: the slot is cleared.
ModalOnCancel ==
    /\ FormModalVisible
    /\ timeslot' = NoSlot
    /\ effectDue' = (effectDue \/ timeslot # NoSlot)
    /\ UNCHANGED << eventLoaded, seatedEventData, selectedDate, eventIsLoading,
                    bookerState >>
    /\ PageFrame

\* The form on screen is submitted.
FormSubmit == FormVisible /\ HandleBookEvent

(***************************************************************************)
(* Specifications.                                                         *)
(***************************************************************************)
EventTypes ==
    [isDynamic : BOOLEAN, length : 1..MaxDuration,
     multipleDuration : SUBSET (1..MaxDuration), freq : BOOLEAN]

\* The event of the booking session: fixed length, one allowed duration.
SessionEventTypes ==
    { ev \in EventTypes : ev.length = 1 /\ ev.multipleDuration = {1} /\ ~ev.isDynamic }

ExampleQuery ==
    << << MetadataOpen \o << "a", "]" >>, "1" >>,
       << MetadataOpen \o << "b", "]" >>, "2" >>,
       << << "o", "t", "h", "e", "r" >>, "3" >> >>

\* A new booking made in the default timezone: no booking is being
\* rescheduled and no seated booking is being joined.
InitRequest ==
    /\ timezone = "UTC"
    /\ bookingData = NoUid
    /\ seatedEventData = NoUid

InitState ==
    /\ recurringEventCount = NoCount
    /\ formValues = {}
    /\ responses = [email |-> "a@x"]
    /\ globalError = FALSE
    /\ mutation = [k \in Kinds |-> IdleMutation]
    /\ calls = << >>
    /\ navs = << >>
    /\ expiryTime = 0
    /\ submits = 0
    /\ now = 0
    /\ hasInstantMeetingTokenExpired = FALSE
    /\ pollInFlight = FALSE
    /\ toasts = 0
    /\ polled = "none"
    /\ verifiedEmail = NoUid
    /\ isEmailVerificationModalVisible = FALSE
    /\ verifyStep = 0

\* The page as mounted, before its bookerState effect has run; the event
\* query is not loading (it has data, or it failed and may be fetched again).
InitPage ==
    /\ selectedDate = NoSlot
    /\ eventIsLoading = FALSE
    /\ bookerState = "loading"
    /\ effectDue = TRUE
    /\ shouldShowFormInDialog = FALSE

InitHook == InitState /\ InitPage

\* The page was opened without a bookingId in the URL.
InitCommon == InitHook /\ bookingId = NoId

Init ==
    /\ timeslot = NoSlot
    /\ duration = NoDuration
    /\ isInstantMeeting \in BOOLEAN
    /\ rescheduleUid \in {NoUid, "r1"}
    /\ eventLoaded \in BOOLEAN
    /\ eventData \in SessionEventTypes
    /\ searchParams = ExampleQuery
    /\ requiresBookerEmailVerification = FALSE
    /\ InitRequest
    /\ InitCommon

Next ==
    \/ SetSelectedTimeslot
    \/ SetRecurringEventCount
    \/ SetFormValues
    \/ EventLoads
    \/ HandleBookEvent
    \/ CreateBookingResolves
    \/ CreateRecurringBookingResolves
    \/ CreateInstantBookingResolves
    \/ CreationRejects

Spec == Init /\ [][Next]_vars

(***************************************************************************)
(* Request composition: the event descriptor, the selected duration and    *)
(* the URL query range over their bounded domains; a slot is selected and  *)
(* the event is loaded, so that every submission composes a request.       *)
(***************************************************************************)
\* Query keys: metadata[a], metadata[b], other, metadata, metadata_ab.
QueryKeys ==
    { MetadataOpen \o << "a", "]" >>,
      MetadataOpen \o << "b", "]" >>,
      << "o", "t", "h", "e", "r" >>,
      MetadataPrefix,
      MetadataPrefix \o << "_", "a", "b" >> }

QueryValues == << "1", "2", "3", "4", "5" >>

\* Every query of at most MaxParams parameters with distinct keys; the
\* i-th parameter carries the i-th value.
Queries ==
    UNION { { [i \in 1..n |-> << ks[i], QueryValues[i] >>] :
                ks \in { f \in [1..n -> QueryKeys] :
                            \A i, j \in 1..n : i # j => f[i] # f[j] } } :
            n \in 0..MaxParams }

InitComposeCommon ==
    /\ timeslot \in Slots
    /\ isInstantMeeting = FALSE
    /\ rescheduleUid = NoUid
    /\ eventLoaded = TRUE
    /\ requiresBookerEmailVerification = FALSE
    /\ InitRequest
    /\ InitCommon

InitDuration ==
    /\ duration \in 0..MaxDuration
    /\ eventData \in EventTypes
    /\ searchParams = ExampleQuery
    /\ InitComposeCommon

InitMetadata ==
    /\ duration = NoDuration
    /\ eventData \in SessionEventTypes
    /\ searchParams \in Queries
    /\ InitComposeCommon

NextCompose ==
    \/ SetSelectedDuration
    \/ HandleBookEvent

SpecDuration == InitDuration /\ [][NextCompose]_vars

SpecMetadata == InitMetadata /\ [][NextCompose]_vars

(***************************************************************************)
(* The user keeps editing the form while single-booking calls are in       *)
(* flight.                                                                 *)
(***************************************************************************)
InitEdit ==
    /\ timeslot \in Slots
    /\ duration = NoDuration
    /\ isInstantMeeting = FALSE
    /\ rescheduleUid = NoUid
    /\ eventLoaded = TRUE
    /\ eventData \in { ev \in SessionEventTypes : ~ev.freq }
    /\ searchParams = ExampleQuery
    /\ requiresBookerEmailVerification = FALSE
    /\ InitRequest
    /\ InitCommon

NextEdit ==
    \/ EditResponses
    \/ HandleBookEvent
    \/ CreateBookingResolves
    \/ CreationRejects

SpecEdit == InitEdit /\ [][NextEdit]_vars

(***************************************************************************)
(* A whole session: the page is opened with or without a bookingId in the  *)
(* URL, single or instant bookings are created, the poller runs and time   *)
(* passes.                                                                 *)
(***************************************************************************)
InitPoll ==
    /\ timeslot \in Slots
    /\ duration = NoDuration
    /\ isInstantMeeting \in BOOLEAN
    /\ rescheduleUid = NoUid
    /\ eventLoaded \in BOOLEAN
    /\ eventData \in { ev \in SessionEventTypes : ~ev.freq }
    /\ searchParams = ExampleQuery
    /\ requiresBookerEmailVerification = FALSE
    /\ bookingId \in {NoId, UrlBookingId}
    /\ InitRequest
    /\ InitHook

NextPoll ==
    \/ EventLoads
    \/ HandleBookEvent
    \/ CreateBookingResolves
    \/ CreateInstantBookingResolves
    \/ CreationRejects
    \/ Tick
    \/ PollTick
    \/ PollResponds

SpecPoll == InitPoll /\ [][NextPoll]_vars

\* Every network call completes, the refetch timer fires and time advances.
FairPoll ==
    /\ WF_vars(CreateBookingResolves \/ CreateInstantBookingResolves \/ CreationRejects)
    /\ WF_vars(Tick)
    /\ WF_vars(PollTick)
    /\ WF_vars(PollResponds)

SpecPollFair == SpecPoll /\ FairPoll

(***************************************************************************)
(* Bookings of an event that may require a verified email: the form        *)
(* submits through the gate, the email is edited, challenges succeed or    *)
(* are dismissed.                                                          *)
(***************************************************************************)
InitGate ==
    /\ timeslot \in Slots
    /\ duration = NoDuration
    /\ isInstantMeeting = FALSE
    /\ rescheduleUid = NoUid
    /\ eventLoaded \in BOOLEAN
    /\ eventData \in { ev \in SessionEventTypes : ~ev.freq }
    /\ searchParams = ExampleQuery
    /\ requiresBookerEmailVerification \in BOOLEAN
    /\ InitRequest
    /\ InitCommon

NextGate ==
    \/ EventLoads
    \/ EditResponses
    \/ OnSubmit
    \/ VerifyCodeSuccess
    \/ CloseVerifyDialog
    \/ CreateBookingResolves
    \/ CreationRejects

SpecGate == InitGate /\ [][NextGate]_vars

\* The same bookings, with the success callback of the challenge taken one
\* statement at a time.
NextVerify ==
    \/ NoCallbackRunning /\ EventLoads
    \/ NoCallbackRunning /\ EditResponses
    \/ NoCallbackRunning /\ OnSubmit
    \/ NoCallbackRunning /\ CloseVerifyDialog
    \/ NoCallbackRunning /\ CreateBookingResolves
    \/ NoCallbackRunning /\ CreationRejects
    \/ OnSuccessSetVerifiedEmail
    \/ OnSuccessClosesModal
    \/ OnSuccessHandleBookEvent

SpecVerify == InitGate /\ [][NextVerify]_vars

(***************************************************************************)
(* The page from its mount: the event query settles, a date and a slot are *)
(* picked, the form is submitted or cancelled, the effect follows.         *)
(***************************************************************************)
InitBooker ==
    /\ timeslot = NoSlot
    /\ duration = NoDuration
    /\ isInstantMeeting = FALSE
    /\ rescheduleUid = NoUid
    /\ eventLoaded = FALSE
    /\ eventData \in { ev \in SessionEventTypes : ~ev.freq }
    /\ searchParams = ExampleQuery
    /\ requiresBookerEmailVerification = FALSE
    /\ timezone = "UTC"
    /\ bookingData = NoUid
    /\ seatedEventData \in {NoUid, "s1"}
    /\ bookingId = NoId
    /\ selectedDate = NoSlot
    /\ eventIsLoading = TRUE
    /\ bookerState = "loading"
    /\ effectDue = TRUE
    /\ shouldShowFormInDialog \in BOOLEAN
    /\ InitState

NextBooker ==
    \/ BookerStateEffect
    \/ EventSettles
    \/ SelectDate
    \/ SelectTimeslot
    \/ OnCancel
    \/ ModalOnCancel
    \/ FormSubmit

SpecBooker == InitBooker /\ [][NextBooker]_vars

(***************************************************************************)
(* The user changes the slot, the duration and the timezone while          *)
(* creation calls are in flight.                                           *)
(***************************************************************************)
\* An event that allows every duration but the longest.
SnapshotEventTypes ==
    { ev \in EventTypes :
        /\ ~ev.isDynamic /\ ~ev.freq /\ ev.length = 1
        /\ ev.multipleDuration = 1..(MaxDuration - 1) }

InitSnapshot ==
    /\ timeslot \in AllSlots
    /\ duration = NoDuration
    /\ isInstantMeeting = FALSE
    /\ rescheduleUid \in {NoUid, "r1"}
    /\ eventLoaded = TRUE
    /\ eventData \in SnapshotEventTypes
    /\ searchParams = ExampleQuery
    /\ requiresBookerEmailVerification = FALSE
    /\ timezone = "UTC"
    /\ bookingData \in {NoUid, "b1"}
    /\ seatedEventData \in {NoUid, "s1"}
    /\ bookingData # NoUid => seatedEventData # NoUid
    /\ InitCommon

NextSnapshot ==
    \/ ChangeSelectedTimeslot
    \/ SetSelectedDuration
    \/ SetTimezone
    \/ HandleBookEvent

SpecSnapshot == InitSnapshot /\ [][NextSnapshot]_vars

(***************************************************************************)
(* Properties.                                                             *)
(***************************************************************************)
\* A step that is one handleBookEvent invocation.
Submitted == submits' # submits

\* The step dispatched exactly one creation call and left the log of the
\* earlier calls as it was.
DispatchedOne == Len(calls') = Len(calls) + 1 /\ SubSeq(calls', 1, Len(calls)) = calls

\* The creation call a step dispatched.
NewCall == calls'[Len(calls')]

PassesGuards == timeslot # NoSlot /\ eventLoaded

\* C1: at most one creation call (single, recurring or instant) is in flight
\* at any time; a submission made while an earlier call is pending dispatches
\* no second call.
AtMostOneInFlight == Cardinality(Pending) <= 1

\* C2: a submission with a slot, event data, instant mode off, a recurrence
\* frequency, a non-zero recurrence count and no reschedule reference invokes
\* createRecurringBooking exactly once, with that count, and never createBooking.
RecurringPathOnce ==
    [][(/\ Submitted
        /\ PassesGuards
        /\ ~isInstantMeeting
        /\ eventData.freq
        /\ recurringEventCount # NoCount
        /\ rescheduleUid = NoUid)
       => (/\ DispatchedOne
           /\ NewCall.kind = "recurring"
           /\ NewCall.input.count = recurringEventCount)]_vars

RecurringPathTaken ==
    \E i \in DOMAIN calls :
        /\ calls[i].kind = "recurring"
        /\ calls[i].input.count = MaxCount
        /\ \A j \in DOMAIN calls : calls[j].kind # "single"

\* C3: with the instant-mode flag set, a submission that passes both guards
\* invokes createInstantBooking exactly once and neither other path, whatever
\* the recurrence policy, the recurrence count and the reschedule reference are.
InstantPathRegardless ==
    [][(Submitted /\ PassesGuards /\ isInstantMeeting)
       => (DispatchedOne /\ NewCall.kind = "instant")]_vars

InstantPathTakenOnRecurringEvent ==
    /\ isInstantMeeting
    /\ eventData.freq
    /\ rescheduleUid = NoUid
    /\ recurringEventCount # NoCount
    /\ Len(calls) = 1
    /\ calls[1].kind = "instant"
    /\ submits = 1

\* C4: every submission that passes both guards issues exactly one creation
\* call, and it is the single path exactly when instant mode is off and the
\* event has no recurrence frequency, or no recurrence count is set, or a
\* reschedule reference is present.
RouteExclusive ==
    [][(Submitted /\ PassesGuards)
       => (/\ DispatchedOne
           /\ (NewCall.kind = "single"
                 <=> (/\ ~isInstantMeeting
                      /\ (\/ ~eventData.freq
                          \/ recurringEventCount = NoCount
                          \/ rescheduleUid # NoUid))))]_vars

RescheduleOfRecurringTakesSinglePath ==
    /\ ~isInstantMeeting
    /\ eventData.freq
    /\ rescheduleUid # NoUid
    /\ recurringEventCount # NoCount
    /\ Len(calls) = 1
    /\ calls[1].kind = "single"
    /\ submits = 1

\* C5: a submission with no selected slot issues no creation call, sets no
\* global error, clears no existing form error and leaves the store-level
\* form-value cache unchanged.
NoSlotIsNoOp ==
    [][(Submitted /\ timeslot = NoSlot)
       => UNCHANGED << calls, mutation, globalError, formValues, navs >>]_vars

NoSlotSubmissionKeptCache ==
    /\ submits >= 1
    /\ timeslot = NoSlot
    /\ calls = << >>
    /\ ~globalError
    /\ formValues # {}

\* C6: a submission with a slot selected while event data is not loaded sets
\* the global error, which is still set when the handler returns, and issues
\* no creation call on any path.
UnloadedEventBlocksSubmission ==
    [][(Submitted /\ timeslot # NoSlot /\ ~eventLoaded)
       => (globalError' /\ UNCHANGED << calls, mutation, navs >>)]_vars

UnloadedEventSubmitted ==
    /\ submits = 1
    /\ ~eventLoaded
    /\ globalError
    /\ calls = << >>

\* C7: the duration of the composed request is, for a dynamic event, the
\* selected duration if one is present and else the event length; for a
\* non-dynamic event, the selected duration only if it is a member of the
\* event's allowed-duration set, and the event's default length otherwise.
DurationPolicy ==
    [][(Submitted /\ PassesGuards)
       => (/\ DispatchedOne
           /\ NewCall.input.duration =
                IF eventData.isDynamic
                THEN (IF duration = NoDuration THEN eventData.length ELSE duration)
                ELSE (IF duration \in eventData.multipleDuration
                      THEN duration
                      ELSE eventData.length))]_vars

DisallowedDurationOverridden ==
    /\ ~eventData.isDynamic
    /\ eventData.multipleDuration # {}
    /\ duration # NoDuration
    /\ duration \notin eventData.multipleDuration
    /\ duration # eventData.length
    /\ submits = 1
    /\ Len(calls) = 1
    /\ calls[1].input.duration = eventData.length

\* The bracket form metadata[name] of a query key, and the flat map it stands for.
IsBracketKey(key) ==
    /\ StartsWith(key, MetadataOpen)
    /\ Len(key) > Len(MetadataOpen)
    /\ key[Len(key)] = "]"

BracketName(key) == SubSeq(key, Len(MetadataOpen) + 1, Len(key) - 1)

BracketMetadata(sp) ==
    LET params == { i \in 1..Len(sp) : IsBracketKey(sp[i][1]) }
    IN  [name \in { BracketName(sp[i][1]) : i \in params } |->
            sp[CHOOSE i \in params : BracketName(sp[i][1]) = name][2]]

\* C8: the request metadata holds exactly one entry name -> value for each
\* query parameter whose key has the bracket form metadata[name], and no
\* entry derived from any other parameter.
MetadataOnlyFromBracketKeys ==
    \A i \in DOMAIN calls : calls[i].input.metadata = BracketMetadata(searchParams)

\* C9: a recurring creation call that resolves with an empty occurrence
\* sequence, or with a first occurrence without uid, never leads to a success
\* redirect; a redirect of a recurring attempt carries the first occurrence.
RecurringRedirectNeedsFirstUid ==
    \A n \in DOMAIN navs :
        (navs[n].type = "redirect" /\ calls[navs[n].call].kind = "recurring")
        => LET r == calls[navs[n].call].response
           IN  /\ calls[navs[n].call].state = "resolved"
               /\ Len(r.occurrences) > 0
               /\ r.occurrences[1] # NoUid
               /\ navs[n].uid = r.occurrences[1]

RecurringResolvedWithoutFirstUid ==
    \E i \in DOMAIN calls :
        /\ calls[i].kind = "recurring"
        /\ calls[i].state = "resolved"
        /\ Len(calls[i].response.occurrences) = 2
        /\ calls[i].response.occurrences[1] = NoUid
        /\ calls[i].response.occurrences[2] # NoUid
        /\ \A n \in DOMAIN navs : navs[n].call # i

\* A result with a usable identifier: a uid, or a first occurrence with a uid.
HasUsableIdentifier(c) ==
    CASE c.kind = "single" -> c.response.uid # NoUid
      [] c.kind = "recurring" ->
            Len(c.response.occurrences) > 0 /\ c.response.occurrences[1] # NoUid
      [] OTHER -> TRUE

\* C10: a creation call that resolves without a usable identifier leaves the
\* same visible outcome as a rejected call: the error view reports an error
\* (hasFormErrors, a data error) and no navigation of any kind is issued.
MissingIdentifierSurfacedAsError ==
    \A i \in DOMAIN calls :
        (/\ calls[i].state = "resolved"
         /\ ~HasUsableIdentifier(calls[i])
         /\ mutation[calls[i].kind].current = i)
        => (/\ Errors.hasFormErrors
            /\ Errors.dataErrors # "null"
            /\ \A n \in DOMAIN navs : navs[n].call # i)

\* A step of the hook itself: a submission, or a creation call changing state.
HookStep == Submitted \/ calls' # calls

\* C11: the hook never resets the form responses: across a submission, a
\* failure and a success they stay what the attendee entered, and a failed
\* call's request holds them as submitted; a guarded submission empties the
\* store cache when it dispatches, a second one empties it again, and the
\* completion of a call does not refill it.
ResponsesSurviveFailure ==
    [][ HookStep =>
          /\ responses' = responses
          /\ (Submitted /\ PassesGuards) =>
                 (formValues' = {} /\ DispatchedOne /\ NewCall.input.values = responses)
          /\ ~Submitted => formValues' = formValues ]_vars

\* A call was rejected while the form still holds the responses it submitted,
\* and the submission that followed it found the cache emptied.
FailedThenResubmitted ==
    \E i \in DOMAIN calls :
        /\ calls[i].state = "rejected"
        /\ calls[i].input.values = responses
        /\ i < Len(calls)
        /\ formValues = {}

\* C12: the success redirect of a single booking that resolved with a booking
\* identifier and no payment reference carries the email that was submitted
\* in the request, also when the responses were edited while the call was in
\* flight.
RedirectCarriesSubmittedEmail ==
    \A n \in DOMAIN navs :
        (/\ navs[n].type = "redirect"
         /\ calls[navs[n].call].kind = "single"
         /\ calls[navs[n].call].response.paymentUid = NoUid)
        => navs[n].email = calls[navs[n].call].input.values.email

\* C19: the request of a dispatched call is built within the submission from
\* the slot, the validated duration, the timezone, the reschedule and seat
\* references and the URL metadata as they are at that moment, and no later
\* step changes the request of a call already dispatched.
RequestIsSnapshot ==
    [][ /\ (Submitted /\ PassesGuards) =>
              /\ DispatchedOne
              /\ NewCall.input.date = timeslot
              /\ NewCall.input.duration = ValidDuration(eventData, duration)
              /\ NewCall.input.timeZone = timezone
              /\ NewCall.input.rescheduleUid = rescheduleUid
              /\ NewCall.input.bookingUid \in {bookingData, seatedEventData}
              /\ (bookingData # NoUid => NewCall.input.bookingUid = bookingData)
              /\ NewCall.input.metadata = Metadata(searchParams)
        /\ \A i \in DOMAIN calls : calls'[i].input = calls[i].input ]_vars

\* A call is in flight whose request names a reschedule and a seat reference
\* and differs from the store in slot, duration and timezone.
StoreChangedInFlight ==
    \E i \in Pending :
        /\ calls[i].input.date # timeslot
        /\ timeslot # NoSlot
        /\ calls[i].input.duration # ValidDuration(eventData, duration)
        /\ calls[i].input.timeZone # timezone
        /\ calls[i].input.rescheduleUid # NoUid
        /\ calls[i].input.bookingUid # NoUid

\* The positions in the navigation log of the navigations of type t issued
\* for call i.
NavsOf(i, t) == { n \in DOMAIN navs : navs[n].call = i /\ navs[n].type = t }

\* C20: a single booking that resolved with a payment reference has a
\* navigation to the payment link of that reference, and no success redirect
\* of the same call precedes it; the payment navigation carries the email of
\* the form.
PaymentNavigationFirst ==
    [][ \A i \in DOMAIN calls :
          (/\ calls[i].kind = "single"
           /\ calls[i].state = "pending"
           /\ calls'[i].state = "resolved"
           /\ calls'[i].response.paymentUid # NoUid)
          => /\ Len(navs') > Len(navs)
             /\ navs'[Len(navs) + 1] =
                    [type |-> "payment", call |-> i,
                     uid |-> calls'[i].response.paymentUid,
                     email |-> responses.email]
             /\ \A n \in (Len(navs) + 2)..Len(navs') :
                    navs'[n].type = "redirect" /\ navs'[n].call = i ]_vars

\* A booking resolved with both a payment reference and an identifier: the
\* payment navigation was issued, then the redirect.
PaymentThenRedirect ==
    \E i \in DOMAIN calls :
        /\ calls[i].state = "resolved"
        /\ calls[i].response.paymentUid # NoUid
        /\ calls[i].response.uid # NoUid
        /\ \E n \in NavsOf(i, "payment") : \E m \in NavsOf(i, "redirect") : n < m

\* C15: while the event requires verification and the email in the form is
\* not verified, handleBookEvent is not invoked and no creation call is
\* dispatched on any path, except by the step in which the open challenge
\* reports success; the submit action opens the challenge instead.
GateBlocksCommit ==
    [][ (requiresBookerEmailVerification /\ ~EmailVerified)
        => /\ (Submitted \/ Len(calls') > Len(calls))
              => /\ isEmailVerificationModalVisible
                 /\ ~isEmailVerificationModalVisible'
                 /\ verifiedEmail' = responses.email
           /\ (~isEmailVerificationModalVisible /\ isEmailVerificationModalVisible')
              => (submits' = submits /\ calls' = calls) ]_vars

\* The challenge is open for an unverified email after an earlier email was
\* verified and booked with.
ChallengeOpenedAgain ==
    /\ requiresBookerEmailVerification
    /\ isEmailVerificationModalVisible
    /\ verifiedEmail \notin {NoUid, responses.email}
    /\ Len(calls) = 1

\* The expiry instant recorded for the instant booking is in the past.
ExpiryPassed == expiryTime # 0 /\ expiryTime < now

\* C13: once the recorded expiry instant is in the past, no poll response
\* issues a navigation, the response of a poll that was in flight when the
\* expiry passed included, and no further fetch is sent for that booking.
NoNavigationAfterExpiry ==
    [][ ExpiryPassed =>
          /\ Len(navs') > Len(navs) => navs'[Len(navs')].type # "location"
          /\ ~pollInFlight => ~pollInFlight' ]_vars

\* The poller has stopped: the page was left for the meeting, or polling is
\* disabled and nothing is in flight.
PollerActive == bookingId # NoId /\ ~Navigated
PollerStopped == Navigated \/ (~PollEnabled /\ ~pollInFlight)

\* C14: whenever a non-zero bookingId is known the poller eventually stops,
\* also when no expiry instant has been recorded.
PollerEventuallyStops == PollerActive ~> PollerStopped

\* C16: when a later call was dispatched while call i was pending, the end of
\* call i has no visible effect: no navigation, no bookingId or expiry
\* written, no change of the error view.
StaleResolutionInvisible ==
    [][ \A i \in Pending :
          (i < Len(calls) /\ calls'[i].state # "pending")
          => /\ navs' = navs
             /\ bookingId' = bookingId
             /\ expiryTime' = expiryTime
             /\ Errors' = Errors ]_vars

\* No hook reports a call loading and no creation call is in flight.
Idle ==
    /\ Pending = {}
    /\ \A k \in Kinds : mutation[k].status # "loading"

\* C17: no outcome is terminal: whatever happened before, a submission with a
\* slot selected and the event data loaded dispatches a creation call, and
\* when every network call completes the hooks are idle again.
SessionNeverStuck ==
    /\ [][ (Submitted /\ PassesGuards) => DispatchedOne ]_vars
    /\ (~Idle ~> Idle)

\* After a rejected call, a result without identifier and a submission the
\* guards refused, the hooks are idle and a later call was dispatched.
RecoveredFromFailure ==
    /\ Idle
    /\ \E i \in DOMAIN calls :
          /\ \/ calls[i].state = "rejected"
             \/ (calls[i].state = "resolved" /\ ~HasUsableIdentifier(calls[i]))
          /\ i < Len(calls)
          /\ calls[Len(calls)].state = "resolved"

\* C18: right after a submission with a slot selected and the event data
\* loaded, while its call is pending, the store cache is empty and the error
\* view reports no error of an earlier attempt, whatever path that used.
SubmissionClearsAllErrors ==
    [][ (Submitted /\ PassesGuards)
        => /\ formValues' = {}
           /\ ~Errors'.hasFormErrors
           /\ Errors'.dataErrors = "null" ]_vars

\* C21: when an instant creation call succeeds, the returned bookingId is
\* written to the URL query and the returned expiry instant is recorded, no
\* navigation is issued, and whenever a bookingId and an expiry that has not
\* passed are recorded the poller is enabled.
InstantSuccessArmsPoller ==
    [][ /\ \A i \in Pending :
              (calls[i].kind = "instant" /\ calls'[i].state = "resolved")
              => /\ bookingId' = calls'[i].response.bookingId
                 /\ bookingId' # NoId
                 /\ expiryTime' = calls'[i].response.expires
                 /\ navs' = navs
        /\ (bookingId' # NoId /\ expiryTime' # 0 /\ expiryTime' >= now')
              => PollEnabled' ]_vars

\* An instant booking succeeded and, its expiry still ahead, a location fetch
\* is in flight.
PollerArmed ==
    /\ \E i \in DOMAIN calls :
          /\ calls[i].kind = "instant" /\ calls[i].state = "resolved"
          /\ bookingId = calls[i].response.bookingId
          /\ expiryTime = calls[i].response.expires
    /\ expiryTime >= now
    /\ pollInFlight
    /\ navs = << >>

\* A step in which the fetch in flight is answered.
PollAnswered == pollInFlight /\ ~pollInFlight'

BadPayloads == {"nourl", "malformed"}

\* C22: a poll response that is malformed or has no video-call URL shows an
\* error toast, issues no navigation, leaves the creation and form errors,
\* the bookingId and the expiry as they are and, unless the expiry has
\* passed, leaves the poller enabled; a response with a URL that follows such
\* a response navigates.
BadPayloadIsTransient ==
    [][ PollAnswered =>
          /\ polled' \in BadPayloads =>
                /\ toasts' > 0
                /\ navs' = navs
                /\ Errors' = Errors
                /\ mutation' = mutation
                /\ bookingId' = bookingId /\ expiryTime' = expiryTime
                /\ ~ExpiryPassed' => PollEnabled'
          /\ (polled \in BadPayloads /\ polled' = "url") => Navigated' ]_vars

\* After a response without a usable URL the next fetch is in flight.
PollingAfterBadPayload ==
    /\ polled \in BadPayloads
    /\ pollInFlight
    /\ ~Navigated
    /\ ~Errors.hasFormErrors

\* C25: the poller shows an error only for a response that is malformed or
\* lacks the video-call URL; a response that carries the URL navigates and
\* shows no error.
ErrorOnlyForBadPayload ==
    /\ toasts > 0 => polled \in BadPayloads
    /\ polled = "url" => (Navigated /\ toasts = 0)

\* C23: in the success callback of the challenge the email of the form is
\* marked verified before the modal closes, and handleBookEvent is invoked,
\* by the last statement, only with the email marked and the modal closed;
\* while the email of the form is the verified one no challenge is opened,
\* so a further submission with that email invokes handleBookEvent directly.
VerifiedThenClosedThenCommitted ==
    [][ /\ (isEmailVerificationModalVisible /\ ~isEmailVerificationModalVisible'
              /\ verifyStep # 0) => EmailVerified
        /\ (verifyStep # 0 /\ verifyStep' = 0) =>
              (Submitted /\ EmailVerified /\ ~isEmailVerificationModalVisible)
        /\ (Submitted /\ requiresBookerEmailVerification) => EmailVerified
        /\ (EmailVerified /\ ~isEmailVerificationModalVisible) =>
              ~isEmailVerificationModalVisible' ]_vars

\* Two bookings were made with the verified email: the first through the
\* challenge, the second without it.
SecondSubmissionSkippedChallenge ==
    /\ requiresBookerEmailVerification
    /\ EmailVerified
    /\ ~isEmailVerificationModalVisible
    /\ verifyStep = 0
    /\ Len(calls) = 2
    /\ \A i \in DOMAIN calls : calls[i].input.values = responses

\* C24: once the effect has run, the booker state is 'loading' if the event
\* is loading, else 'selecting_date' if no date is selected, else
\* 'selecting_time' if no slot is selected, else 'booking'; so in 'booking' a
\* slot is selected; the form is on screen only in 'booking'; every
\* submission comes from the form on screen; and a cancel clears the slot and
\* makes the effect run again, which then leaves 'booking'.
BookerStateFollowsSelection ==
    /\ [](~effectDue =>
            /\ eventIsLoading => bookerState = "loading"
            /\ (~eventIsLoading /\ selectedDate = NoSlot)
                  => bookerState = "selecting_date"
            /\ (~eventIsLoading /\ selectedDate # NoSlot /\ timeslot = NoSlot)
                  => bookerState = "selecting_time"
            /\ (~eventIsLoading /\ selectedDate # NoSlot /\ timeslot # NoSlot)
                  => bookerState = "booking"
            /\ bookerState = "booking" => timeslot # NoSlot)
    /\ [](FormVisible => bookerState = "booking")
    /\ [][ /\ Submitted => bookerState = "booking"
           /\ (timeslot # NoSlot /\ timeslot' = NoSlot)
                 => (bookerState = "booking" /\ effectDue')
           /\ (effectDue /\ ~effectDue' /\ timeslot = NoSlot)
                 => bookerState' # "booking" ]_vars

\* The form was submitted and then cancelled: the effect has run and the
\* page is back at the choice of a slot.
CancelledBackToSlots ==
    /\ ~effectDue
    /\ bookerState = "selecting_time"
    /\ Len(calls) > 0
====
